---- MODULE Spec2Model ----
(***************************************************************************)
(* cargo-recent (src/src/main.rs): find the crate most recently touched by *)
(* uncommitted changes and print its path, print its name, or run a cargo  *)
(* command on it.                                                          *)
(*                                                                         *)
(* Paths are sequences of components as std::path sees them: an absolute   *)
(* path starts with the root component "/", the path "." is <<".">> and    *)
(* the empty PathBuf is <<>>.  The modelled tree has no symbolic links.    *)
(* An Option is a sequence of length 0 (None) or 1 (Some).                 *)
(***************************************************************************)
EXTENDS Integers, Sequences, FiniteSets, TLC

VARIABLES
    cwd,          \* environment: current working directory of the process
    manifest,     \* environment: the Cargo.toml of every directory
    fstat,        \* environment: existence and modification time of every file
    diff,         \* environment: lines `git diff --name-only` prints at the repo root
    mode,         \* environment: the parsed subcommand (args.command)
    pc,           \* position of main / find_recent_crate_path
    repo_root,    \* Option<PathBuf> found by find_repo_root
    diff_output,  \* Option<lines>: the decoded stdout of git diff
    i,            \* index of the next line of diff_output.lines()
    latest_time,  \* latest_time of the scan loop
    latest_file,  \* Option<PathBuf> latest_file of the scan loop
    crate_path,   \* Option<PathBuf>: what find_recent_crate_path returned
    crate_name,   \* Option<String>: what get_crate_name returned
    stdout,       \* lines printed so far
    cargo,        \* the downstream cargo process
    result        \* how main ended: "running", "Ok" or the error

vars == <<cwd, manifest, fstat, diff, mode, pc, repo_root, diff_output, i,
          latest_time, latest_file, crate_path, crate_name, stdout, cargo, result>>

env == <<cwd, manifest, fstat, diff, mode>>

----------------------------------------------------------------------------
(* Bounds of the model *)

\* longest diff listing, in lines
MaxDiff == 3
\* latest modification time, in ticks after the epoch
MaxTime == 2
\* earliest modification time, in ticks before the epoch
PreEpoch == 1

(* Program constants *)

\* std::time::SystemTime::UNIX_EPOCH, the initial latest_time
UNIX_EPOCH == 0
\* WalkDir::max_depth(3)
MaxDepth == 3

Times == (0 - PreEpoch)..MaxTime

None == <<>>
Some(x) == <<x>>

----------------------------------------------------------------------------
(* The file tree *)

FsRoot == <<"/">>
Dot == <<".">>
EmptyPath == <<>>

R == <<"/", "r">>

AllDirs == { FsRoot, R, R \o <<"a">>, R \o <<"a", "src">>, R \o <<"a", "b">>,
             R \o <<"a", "b", "c">>, R \o <<"d">>, <<"/", "t">> }

\* directories holding a .git directory
GitDirs == { R }

\* files of the work tree, relative to R (what git diff names)
RelFiles == { <<"README.md">>, <<"main.rs">>, <<"a", "src", "lib.rs">>,
              <<"a", "src", "main.rs">>, <<"a", "b", "lib.rs">>,
              <<"a", "b", "c", "lib.rs">>, <<"d", "lib.rs">> }

Files == { R \o f : f \in RelFiles }

\* component names in the byte order of their strings; no name is a prefix
\* of another, so comparing paths component by component in this order is
\* comparing their strings
NameOrder == << "/", ".", "Cargo.toml", "README.md", "a", "b", "c", "d",
                "lib.rs", "main.rs", "r", "src", "t" >>

NameRank(n) == CHOOSE k \in 1..Len(NameOrder) : NameOrder[k] = n

Min(a, b) == IF a < b THEN a ELSE b

\* str `<` on to_string_lossy() of two paths
PathLess(p, q) ==
    \E k \in 1..(Min(Len(p), Len(q)) + 1) :
        /\ \A j \in 1..(k - 1) : p[j] = q[j]
        /\ \/ k > Len(p) /\ k <= Len(q)
           \/ k <= Len(p) /\ k <= Len(q) /\ NameRank(p[k]) < NameRank(q[k])

\* Path::starts_with: whole components
StartsWith(p, base) ==
    /\ Len(base) <= Len(p)
    /\ SubSeq(p, 1, Len(base)) = base

\* Path::parent: None for "/" , "" ; the path without its last component
Parent(p) ==
    IF p = EmptyPath \/ p = FsRoot THEN None
    ELSE Some(SubSeq(p, 1, Len(p) - 1))

\* Path::file_name: None unless the last component is a normal one
FileName(p) ==
    IF p = EmptyPath \/ p[Len(p)] \in {"/", ".", ".."} THEN None
    ELSE Some(p[Len(p)])

\* Path::join: an absolute argument replaces the base, an empty one keeps it
Join(base, rel) ==
    IF rel # EmptyPath /\ rel[1] = "/" THEN rel ELSE base \o rel

\* the path the operating system resolves a (possibly relative) path to
Resolve(p) ==
    IF p = EmptyPath THEN EmptyPath
    ELSE IF p[1] = "/" THEN p
    ELSE IF p[1] = "." THEN cwd \o SubSeq(p, 2, Len(p))
    ELSE cwd \o p

----------------------------------------------------------------------------
(* File states *)

Missing == [ex |-> FALSE, mt |-> None]
NoMtime == [ex |-> TRUE, mt |-> None]
At(t) == [ex |-> TRUE, mt |-> Some(t)]

FileStates == {Missing, NoMtime} \cup { At(t) : t \in Times }

\* what fs::metadata can report for a path: a file as the tree has it, a
\* directory with whatever modification time it has
StatOutcomes(p) ==
    IF p \in Files THEN { fstat[p] }
    ELSE IF p \in AllDirs THEN { At(t) : t \in Times }
    ELSE { Missing }

----------------------------------------------------------------------------
(* Manifests: a Cargo.toml is absent, unreadable, or a sequence of lines *)

Section(s) == [t |-> "section", v |-> s]
NameLine(n) == [t |-> "name", v |-> n]       \* name = "n"
BadName == [t |-> "badname", v |-> ""]        \* name = n   (no quotes)
Other == [t |-> "other", v |-> ""]            \* any other line

Absent == [st |-> "absent", lines |-> <<>>]
Unreadable == [st |-> "unreadable", lines |-> <<>>]
Toml(ls) == [st |-> "file", lines |-> ls]

Pkg(n) == Toml(<< Section("[package]"), NameLine(n), Other >>)
Workspace == Toml(<< Section("[workspace]"), Other >>)
WorkspacePkg(n) == Toml(<< Section("[package]"), NameLine(n), Section("[workspace]") >>)
PkgThenBin(n) == Toml(<< Section("[package]"), NameLine(n), Section("[[bin]]"), NameLine("tool") >>)
LibThenPkg(n) == Toml(<< Section("[lib]"), NameLine("lib"), Section("[package]"), NameLine(n) >>)
NoName == Toml(<< Section("[package]"), Other >>)
Malformed == Toml(<< Section("[package]"), BadName, Other >>)
EmptyToml == Toml(<< >>)

\* Path::exists on <dir>/Cargo.toml
HasManifest(d) == d \in AllDirs /\ manifest[d].st # "absent"

\* cargo_content.contains("[workspace]")
ContainsWorkspace(m) ==
    \E k \in 1..Len(m.lines) : m.lines[k] = Section("[workspace]")

----------------------------------------------------------------------------
(* Results *)

Ok(v) == [ok |-> TRUE, val |-> v, err |-> ""]
Err(e) == [ok |-> FALSE, val |-> EmptyPath, err |-> e]
OkName(n) == [ok |-> TRUE, name |-> n, err |-> ""]
ErrName(e) == [ok |-> FALSE, name |-> "", err |-> e]

----------------------------------------------------------------------------
(* find_repo_root *)

RECURSIVE RepoRootFrom(_)
RepoRootFrom(current) ==
    IF current \in GitDirs THEN Some(current)
    ELSE IF Parent(current) # None THEN RepoRootFrom(Parent(current)[1])
    ELSE None

find_repo_root == RepoRootFrom(cwd)

----------------------------------------------------------------------------
(* The directory walk of find_crate_directory *)

PathExists(p) == p \in AllDirs \/ (p \in Files /\ fstat[p].ex)

\* Path::canonicalize().ok(): the tree has no symbolic links, so an existing
\* absolute path is its own canonical form
Canonicalize(p) == IF PathExists(Resolve(p)) THEN Some(Resolve(p)) ELSE None

SubDirs(d) == { e \in AllDirs : Len(e) = Len(d) + 1 /\ StartsWith(e, d) }

RECURSIVE SortedDirs(_)
SortedDirs(S) ==
    IF S = {} THEN <<>>
    ELSE LET m == CHOOSE x \in S : \A y \in S : x = y \/ PathLess(x, y)
         IN  <<m>> \o SortedDirs(S \ {m})

\* WalkDir::new(root).max_depth(MaxDepth) filtered to the files named
\* Cargo.toml: the directories holding one, in the order the walk yields
\* them.  The walk is depth first and yields a directory's entries in the
\* order read_dir returns them, which is unspecified: cargoFirst[d] says
\* whether d/Cargo.toml is listed before or after the subdirectories of d.
\* (The order among sibling subdirectories cannot change which directory
\* containing a given file is yielded first: those form a chain.)
RECURSIVE WalkDir(_, _, _)
RECURSIVE WalkEach(_, _, _)
WalkDir(d, depth, cargoFirst) ==
    LET own  == IF depth + 1 <= MaxDepth /\ manifest[d].st # "absent"
                THEN <<d>> ELSE <<>>
        subs == IF depth + 1 <= MaxDepth
                THEN WalkEach(SortedDirs(SubDirs(d)), depth + 1, cargoFirst)
                ELSE <<>>
    IN  IF cargoFirst[d] THEN own \o subs ELSE subs \o own

WalkEach(ds, depth, cargoFirst) ==
    IF ds = <<>> THEN <<>>
    ELSE WalkDir(Head(ds), depth, cargoFirst) \o WalkEach(Tail(ds), depth, cargoFirst)

\* the loop body of lines 267-301: the first yielded directory, other than
\* the walk's root, whose canonical path is a prefix of the file's
FirstContaining(found, root, file_path) ==
    LET canonical_file == Canonicalize(file_path)
        hit(dir) == /\ dir # root
                    /\ canonical_file # None
                    /\ Canonicalize(dir) # None
                    /\ StartsWith(canonical_file[1], Canonicalize(dir)[1])
        hits == SelectSeq(found, hit)
    IN  IF hits = <<>> THEN None ELSE Some(Canonicalize(Head(hits))[1])

----------------------------------------------------------------------------
(* find_crate_directory *)

\* a resolver that gives up when no sub-crate contains the file
NoSpecificCrateFails(root) == Err("NoProjectFound")

\* lines 304-309: no sub-crate contains the file
NoSpecificCrate(root) == Ok(root)

\* lines 250-309: the root manifest is a workspace
WorkspaceCrate(root, file_path, cargoFirst) ==
    LET hit == FirstContaining(WalkDir(root, 0, cargoFirst), root, file_path)
    IN  IF hit # None THEN Ok(hit[1]) ELSE NoSpecificCrate(root)

\* lines 328-339: up from the file's directory; a directory is looked at
\* only while it has a parent
RECURSIVE AscendFrom(_)
AscendFrom(current) ==
    IF Parent(current) = None THEN None
    ELSE IF HasManifest(Resolve(current)) THEN Some(current)
    ELSE AscendFrom(Parent(current)[1])

\* lines 317-395: the repository root was not found or has no Cargo.toml
Fallback(file_path, cargoFirst) ==
    IF HasManifest(cwd) THEN Ok(Dot)
    ELSE
        LET start == IF Parent(file_path) = None THEN Dot ELSE Parent(file_path)[1]
            up == AscendFrom(start)
        IN  IF up # None THEN Ok(up[1])
            ELSE IF HasManifest(cwd)
            THEN IF manifest[cwd].st = "unreadable" THEN Err("ManifestUnreadable")
                 ELSE IF ContainsWorkspace(manifest[cwd])
                 THEN LET hit == FirstContaining(WalkDir(cwd, 0, cargoFirst), cwd, file_path)
                      IN  IF hit # None THEN Ok(hit[1]) ELSE Ok(Dot)
                 ELSE Ok(Dot)
            ELSE Err("NoProjectFound")

find_crate_directory(file_path, cargoFirst) ==
    LET root == find_repo_root
    IN  IF root # None /\ HasManifest(root[1])
        THEN IF manifest[root[1]].st = "unreadable" THEN Err("ManifestUnreadable")
             ELSE IF ContainsWorkspace(manifest[root[1]])
             THEN WorkspaceCrate(root[1], file_path, cargoFirst)
             ELSE Ok(root[1])
        ELSE Fallback(file_path, cargoFirst)

\* the directories whose listing order the walk depends on: those holding
\* both a Cargo.toml and subdirectories
OrderedDirs == { d \in AllDirs : SubDirs(d) # {} /\ HasManifest(d) }

----------------------------------------------------------------------------
(* get_crate_name *)

\* fs::read_to_string of a Cargo.toml path
ReadManifest(path) ==
    LET abs == Resolve(path)
        dir == IF Parent(abs) = None THEN EmptyPath ELSE Parent(abs)[1]
    IN  IF FileName(abs) = Some("Cargo.toml") /\ dir \in AllDirs
        THEN manifest[dir] ELSE Absent

\* (?m)^\s*name\s*=\s*"([^"]+)" : group 1 of the first matching line
RegexCapture(lines) ==
    LET hits == { k \in 1..Len(lines) : lines[k].t = "name" }
    IN  IF hits = {} THEN None
        ELSE Some(lines[CHOOSE k \in hits : \A j \in hits : k <= j].v)

\* crate_dir.file_name().unwrap_or_default()
DirName(crate_dir) ==
    IF FileName(crate_dir) = None THEN "" ELSE FileName(crate_dir)[1]

get_crate_name(crate_dir) ==
    LET m == ReadManifest(Join(crate_dir, <<"Cargo.toml">>))
    IN  IF m.st # "file" THEN ErrName("ManifestUnreadable")
        ELSE IF RegexCapture(m.lines) # None THEN OkName(RegexCapture(m.lines)[1])
        ELSE OkName(DirName(crate_dir))

----------------------------------------------------------------------------
(* main and find_recent_crate_path, step by step *)

PathLine(p) == [k |-> "path", p |-> p, s |-> ""]
TextLine(t) == [k |-> "text", p |-> EmptyPath, s |-> t]
\* println!()
EmptyLine == TextLine("")
UsageLine == TextLine("No command specified. Try 'cargo recent path' or 'cargo recent show'")

NoCargo == [st |-> "none", argv |-> <<>>]

\* is_empty() without the trim()
IsEmptyUntrimmed(lines) == lines = <<>>

\* diff_output.trim().is_empty(): every line is blank
IsBlank(lines) == \A k \in 1..Len(lines) : lines[k] = EmptyPath

\* a main that does not look at output.status
DownstreamIgnored(success) == "Ok"

\* lines 107-114: the outcome of main once cargo has exited
DownstreamResult(success) == IF success THEN "Ok" ELSE "DownstreamFailure"

\* an Err propagated by `?` out of main
Fail(e) ==
    /\ result' = e
    /\ pc' = "done"

\* line 116-118: no subcommand
MainNone ==
    /\ pc = "main"
    /\ mode.cmd = "none"
    /\ stdout' = Append(stdout, UsageLine)
    /\ result' = "Ok"
    /\ pc' = "done"
    /\ UNCHANGED <<env, repo_root, diff_output, i, latest_time, latest_file,
                   crate_path, crate_name, cargo>>

\* lines 62-63, 71-72, 81-86: a subcommand calls find_recent_crate_path
MainCall ==
    /\ pc = "main"
    /\ mode.cmd \in {"path", "show", "external"}
    /\ IF mode.cmd = "external" /\ mode.args = <<>>
       THEN Fail("NoCargoCommand")
       ELSE pc' = "find_repo_root" /\ UNCHANGED result
    /\ UNCHANGED <<env, repo_root, diff_output, i, latest_time, latest_file,
                   crate_path, crate_name, stdout, cargo>>

\* lines 129-130
FindRepoRoot ==
    /\ pc = "find_repo_root"
    /\ repo_root' = find_repo_root
    /\ IF find_repo_root = None
       THEN Fail("NoRepoRoot")
       ELSE pc' = "git_diff" /\ UNCHANGED result
    /\ UNCHANGED <<env, diff_output, i, latest_time, latest_file,
                   crate_path, crate_name, stdout, cargo>>

\* lines 135-151: git diff --name-only at the repository root; it may fail
\* to run, exit with a failure or print bytes that are not UTF-8
GitDiff ==
    /\ pc = "git_diff"
    /\ \E ran \in BOOLEAN :
         IF ran
         THEN /\ diff_output' = Some(diff)
              /\ pc' = "check_empty"
              /\ UNCHANGED result
         ELSE /\ Fail("DiffUnavailable")
              /\ UNCHANGED diff_output
    /\ UNCHANGED <<env, repo_root, i, latest_time, latest_file,
                   crate_path, crate_name, stdout, cargo>>

\* lines 155-163
CheckEmpty ==
    /\ pc = "check_empty"
    /\ IF IsBlank(diff_output[1])
       THEN /\ crate_path' = Some(EmptyPath)
            /\ pc' = "returned"
            /\ UNCHANGED <<latest_time, latest_file, i>>
       ELSE /\ latest_time' = UNIX_EPOCH
            /\ latest_file' = None
            /\ i' = 1
            /\ pc' = "scan"
            /\ UNCHANGED crate_path
    /\ UNCHANGED <<env, repo_root, diff_output, crate_name, stdout, cargo, result>>

\* lines 165-194: one iteration of the loop over diff_output.lines()
ScanLine ==
    /\ pc = "scan"
    /\ i <= Len(diff_output[1])
    /\ LET file_path == Join(repo_root[1], diff_output[1][i])
       IN  \E st \in StatOutcomes(file_path) :
             IF st.ex /\ st.mt # None
             THEN LET modified_time == st.mt[1]
                  IN  IF modified_time > latest_time
                      THEN /\ latest_time' = modified_time
                           /\ latest_file' = Some(file_path)
                      ELSE IF modified_time = latest_time /\ latest_file # None
                      THEN /\ latest_file' = IF PathLess(file_path, latest_file[1])
                                             THEN Some(file_path) ELSE latest_file
                           /\ UNCHANGED latest_time
                      ELSE UNCHANGED <<latest_time, latest_file>>
             ELSE UNCHANGED <<latest_time, latest_file>>
    /\ i' = i + 1
    /\ UNCHANGED <<env, pc, repo_root, diff_output, crate_path, crate_name,
                   stdout, cargo, result>>

\* lines 196-202: the loop is over
ScanEnd ==
    /\ pc = "scan"
    /\ i > Len(diff_output[1])
    /\ IF latest_file = None
       THEN Fail("NoValidChange")
       ELSE pc' = "find_crate" /\ UNCHANGED result
    /\ UNCHANGED <<env, repo_root, diff_output, i, latest_time, latest_file,
                   crate_path, crate_name, stdout, cargo>>

\* lines 207-210
FindCrate ==
    /\ pc = "find_crate"
    /\ \E cargoFirst \in [OrderedDirs -> BOOLEAN] :
         LET r == find_crate_directory(latest_file[1],
                    [d \in AllDirs |-> IF d \in OrderedDirs THEN cargoFirst[d] ELSE TRUE])
         IN  IF r.ok
             THEN /\ crate_path' = Some(r.val)
                  /\ pc' = "returned"
                  /\ UNCHANGED result
             ELSE /\ Fail(r.err)
                  /\ UNCHANGED crate_path
    /\ UNCHANGED <<env, repo_root, diff_output, i, latest_time, latest_file,
                   crate_name, stdout, cargo>>

\* lines 64-69
PrintPath ==
    /\ pc = "returned"
    /\ mode.cmd = "path"
    /\ stdout' = Append(stdout, IF crate_path[1] = EmptyPath
                                THEN EmptyLine ELSE PathLine(crate_path[1]))
    /\ result' = "Ok"
    /\ pc' = "done"
    /\ UNCHANGED <<env, repo_root, diff_output, i, latest_time, latest_file,
                   crate_path, crate_name, cargo>>

\* lines 73-77, 87-91
NoChange ==
    /\ pc = "returned"
    /\ mode.cmd \in {"show", "external"}
    /\ crate_path[1] = EmptyPath
    /\ stdout' = Append(stdout, EmptyLine)
    /\ result' = "Ok"
    /\ pc' = "done"
    /\ UNCHANGED <<env, repo_root, diff_output, i, latest_time, latest_file,
                   crate_path, crate_name, cargo>>

\* lines 78, 92
GetCrateName ==
    /\ pc = "returned"
    /\ mode.cmd \in {"show", "external"}
    /\ crate_path[1] # EmptyPath
    /\ LET r == get_crate_name(crate_path[1])
       IN  IF r.ok
           THEN /\ crate_name' = Some(r.name)
                /\ pc' = "named"
                /\ UNCHANGED result
           ELSE /\ Fail(r.err)
                /\ UNCHANGED crate_name
    /\ UNCHANGED <<env, repo_root, diff_output, i, latest_time, latest_file,
                   crate_path, stdout, cargo>>

\* line 79
PrintName ==
    /\ pc = "named"
    /\ mode.cmd = "show"
    /\ stdout' = Append(stdout, TextLine(crate_name[1]))
    /\ result' = "Ok"
    /\ pc' = "done"
    /\ UNCHANGED <<env, repo_root, diff_output, i, latest_time, latest_file,
                   crate_path, crate_name, cargo>>

\* lines 94-105: cargo <cmd> --package <name> <rest> is started, or cannot be
RunCargo ==
    /\ pc = "named"
    /\ mode.cmd = "external"
    /\ \E spawned \in BOOLEAN :
         IF spawned
         THEN /\ cargo' = [st |-> "running",
                           argv |-> <<"cargo", mode.args[1], "--package", crate_name[1]>>
                                    \o Tail(mode.args)]
              /\ pc' = "cargo"
              /\ UNCHANGED result
         ELSE /\ Fail("SpawnFailed")
              /\ UNCHANGED cargo
    /\ UNCHANGED <<env, repo_root, diff_output, i, latest_time, latest_file,
                   crate_path, crate_name, stdout>>

\* lines 103-115, 121: output() returns once cargo has exited
CargoExit ==
    /\ pc = "cargo"
    /\ \E success \in BOOLEAN :
         /\ cargo' = [cargo EXCEPT !.st = IF success THEN "exit_ok" ELSE "exit_fail"]
         /\ result' = DownstreamResult(success)
    /\ pc' = "done"
    /\ UNCHANGED <<env, repo_root, diff_output, i, latest_time, latest_file,
                   crate_path, crate_name, stdout>>

Next ==
    \/ MainNone
    \/ MainCall
    \/ FindRepoRoot
    \/ GitDiff
    \/ CheckEmpty
    \/ ScanLine
    \/ ScanEnd
    \/ FindCrate
    \/ PrintPath
    \/ NoChange
    \/ GetCrateName
    \/ PrintName
    \/ RunCargo
    \/ CargoExit

----------------------------------------------------------------------------
(* Initial states: the process has just parsed its arguments.  The           *)
(* environment is drawn from four families of work trees.                    *)

A == R \o <<"a">>
B == R \o <<"a", "b">>
C == R \o <<"a", "b", "c">>
D == R \o <<"d">>
T == <<"/", "t">>

LibRs == <<"a", "src", "lib.rs">>
MainRs == <<"a", "src", "main.rs">>
Readme == <<"README.md">>

Mode(c, a) == [cmd |-> c, args |-> a]
\* clap's external_subcommand always carries the subcommand's own name
Modes == { Mode("path", <<>>), Mode("show", <<>>), Mode("none", <<>>),
           Mode("external", <<"check">>) }

\* the tree of the end-to-end scenario: a workspace at R, the crate "a" in it
ScenarioManifest ==
    [d \in AllDirs |-> IF d = R THEN Workspace
                       ELSE IF d = A THEN Pkg("a") ELSE Absent]

SeqsUpTo(S, n) == UNION { [1..k -> S] : k \in 1..n }

ProgramInit ==
    /\ pc = "main"
    /\ repo_root = None
    /\ diff_output = None
    /\ i = 1
    /\ latest_time = UNIX_EPOCH
    /\ latest_file = None
    /\ crate_path = None
    /\ crate_name = None
    /\ stdout = <<>>
    /\ cargo = NoCargo
    /\ result = "running"

\* the scan: every listing of up to MaxDiff lines over three files, each
\* listed file in every state (missing, no mtime, any time); a file the
\* listing does not name is never looked at and is left missing
ScanRel == { Readme, LibRs, MainRs }
Listed(d) == { R \o d[k] : k \in 1..Len(d) }
InitScan ==
    /\ cwd = R
    /\ manifest = ScenarioManifest
    /\ mode = Mode("path", <<>>)
    /\ diff \in SeqsUpTo(ScanRel, MaxDiff)
    /\ \E st \in [Listed(diff) -> FileStates] :
         fstat = [f \in Files |-> IF f \in Listed(diff) THEN st[f] ELSE Missing]

\* no change: git diff prints nothing, or blank lines only
InitEmpty ==
    /\ cwd \in {R, A, D, T}
    /\ manifest = ScenarioManifest
    /\ mode \in Modes
    /\ diff \in { <<>>, <<EmptyPath>>, <<EmptyPath, EmptyPath>> }
    /\ fstat = [f \in Files |-> At(1)]

\* the resolver: one changed file, every layout of packages and workspaces
InitResolve ==
    /\ cwd \in {R, A, D}
    /\ \E lay \in [{R, A, B, C, D} -> {"absent", "package", "workspace"}] :
         manifest = [d \in AllDirs |->
                       IF d \in {R, A, B, C, D}
                       THEN CASE lay[d] = "absent" -> Absent
                              [] lay[d] = "package" -> Pkg(d[Len(d)])
                              [] OTHER -> Workspace
                       ELSE Absent]
    /\ mode = Mode("path", <<>>)
    /\ \E f \in RelFiles \ {Readme} : diff = <<f>>
    /\ fstat = [f \in Files |-> At(1)]

\* the name: one changed file in crate a, every kind of manifest
ManifestKinds == { Absent, Unreadable, Pkg("pkg"), WorkspacePkg("pkg"), PkgThenBin("pkg"),
                   LibThenPkg("pkg"), NoName, Malformed, EmptyToml }
InitName ==
    /\ cwd \in {R, D}
    /\ \E r \in {Workspace, Absent}, a \in ManifestKinds, dd \in ManifestKinds :
         manifest = [d \in AllDirs |-> IF d = R THEN r
                                       ELSE IF d = A THEN a
                                       ELSE IF d = D THEN dd ELSE Absent]
    /\ mode \in {Mode("show", <<>>), Mode("external", <<"check">>)}
    /\ diff = <<LibRs>>
    /\ fstat = [f \in Files |-> At(1)]

Init ==
    /\ ProgramInit
    /\ \/ InitScan
       \/ InitEmpty
       \/ InitResolve
       \/ InitName

Spec == Init /\ [][Next]_vars

----------------------------------------------------------------------------
(* Vocabulary of the properties *)

\* the loop over the diff lines has run to its end
ScanFinished ==
    /\ diff_output # None
    /\ \E k \in 1..Len(diff_output[1]) : diff_output[1][k] # EmptyPath
    /\ \/ pc = "scan" /\ i > Len(diff_output[1])
       \/ pc \in {"find_crate", "returned", "named", "cargo", "done"}

\* the listed paths that exist and have a readable modification time
Statable ==
    { f \in Listed(diff_output[1]) : f \in Files /\ fstat[f].ex /\ fstat[f].mt # None }

\* f beats g: newer, or as new and the smaller path string
Beats(f, g) ==
    \/ fstat[f].mt[1] > fstat[g].mt[1]
    \/ fstat[f].mt[1] = fstat[g].mt[1] /\ (f = g \/ PathLess(f, g))

Newest(S) == CHOOSE f \in S : \A g \in S : Beats(f, g)

\* a path with a recognized source-file suffix or manifest filename
Recognized(p) == p # EmptyPath /\ p[Len(p)] \in {"lib.rs", "main.rs", "Cargo.toml"}

\* find_crate_directory has been called on the latest file and has returned
Resolved ==
    /\ latest_file # None
    /\ pc \in {"returned", "named", "cargo", "done"}

\* the ancestor directories of a file that hold a Cargo.toml
ManifestAncestors(f) ==
    { d \in AllDirs : d # f /\ StartsWith(f, d) /\ HasManifest(d) }

Deepest(S) == CHOOSE d \in S : \A e \in S : Len(e) <= Len(d)

IsWorkspaceManifest(d) == manifest[d].st = "file" /\ ContainsWorkspace(manifest[d])

\* the repository root holds a workspace manifest
RootIsWorkspace == repo_root # None /\ IsWorkspaceManifest(repo_root[1])

\* the sub-crate directories a walk of depth MaxDepth below the root yields
\* that contain the file
FoundContaining(f) ==
    { d \in ManifestAncestors(f) :
        /\ repo_root # None
        /\ d # repo_root[1]
        /\ StartsWith(d, repo_root[1])
        /\ Len(d) - Len(repo_root[1]) + 1 <= MaxDepth }

\* get_crate_name has been called on the resolved directory
NameAsked ==
    /\ crate_path # None
    /\ crate_path[1] # EmptyPath
    /\ mode.cmd \in {"show", "external"}
    /\ pc \in {"named", "cargo", "done"}

CrateManifest == manifest[Resolve(crate_path[1])]

\* the name the [package] section of a manifest declares
PackageName(lines) ==
    LET inPackage(k) ==
            \E h \in 1..(k - 1) :
                /\ lines[h] = Section("[package]")
                /\ \A j \in (h + 1)..(k - 1) : lines[j].t # "section"
        hits == { k \in 1..Len(lines) : lines[k].t = "name" /\ inPackage(k) }
    IN  IF hits = {} THEN None
        ELSE Some(lines[CHOOSE k \in hits : \A j \in hits : k <= j].v)

----------------------------------------------------------------------------
(* Properties *)

\* C1: once the scan of a non-empty listing is over, if any listed path
\* exists with a readable modification time, latest_file is the listed path
\* with the greatest modification time, the smallest path string among equals,
\* whatever the times and the order of the lines.  (Stated for listings of
\* recognized paths, so that no filter on suffixes plays a part.)
C1_LatestIsNewest ==
    ( /\ ScanFinished
      /\ \A k \in 1..Len(diff_output[1]) : Recognized(diff_output[1][k])
      /\ Statable # {} )
    => latest_file = Some(Newest(Statable))

\* C2: when git diff prints nothing but whitespace, the scan returns the empty
\* path (no error), no cargo command is ever started, and the run ends Ok
\* having printed exactly one empty line, in each of path, show and the
\* forwarded command.
C2_NoChangeIsSuccess ==
    (diff_output # None /\ \A k \in 1..Len(diff_output[1]) : diff_output[1][k] = EmptyPath)
    => /\ pc \in {"check_empty", "returned", "done"}
       /\ cargo = NoCargo
       /\ pc \in {"returned", "done"} => crate_path = Some(EmptyPath)
       /\ pc = "done" => result = "Ok" /\ stdout = <<EmptyLine>>

C2_Witness ==
    /\ pc = "done"
    /\ mode.cmd = "external"
    /\ diff_output = Some(<<EmptyPath>>)
    /\ result = "Ok"
    /\ stdout = <<EmptyLine>>

\* C3: when the listing is non-empty and no listed path has a recognized
\* suffix or manifest filename, the run ends with NoValidChange.
C3_IrrelevantOnlyFails ==
    ( /\ pc = "done"
      /\ diff_output # None
      /\ diff_output[1] # <<>>
      /\ \A k \in 1..Len(diff_output[1]) :
           diff_output[1][k] # EmptyPath /\ ~Recognized(diff_output[1][k]) )
    => result = "NoValidChange"

\* C4: a listed path without a recognized suffix is never the latest change;
\* in the end-to-end scenario (workspace at /r, crate /r/a, /r/a/src/lib.rs
\* older than /r/README.md, both listed) the latest file is /r/a/src/lib.rs
\* and the resolved directory is /r/a.
C4_UnrecognizedNeverLatest ==
    /\ (ScanFinished /\ latest_file # None) => Recognized(latest_file[1])
    /\ ( /\ ScanFinished
         /\ pc \in {"returned", "done"}
         /\ manifest = ScenarioManifest
         /\ Listed(diff_output[1]) = {R \o LibRs, R \o Readme}
         /\ fstat[R \o LibRs] = At(1)
         /\ fstat[R \o Readme] = At(2) )
       => latest_file = Some(R \o LibRs) /\ crate_path = Some(A)

\* C5: if the closest ancestor directory of the file that holds a Cargo.toml
\* holds a manifest that is not a workspace, find_crate_directory returns
\* that directory.
C5_NearestPackageReturned ==
    ( /\ Resolved
      /\ ManifestAncestors(latest_file[1]) # {}
      /\ manifest[Deepest(ManifestAncestors(latest_file[1]))].st = "file"
      /\ ~IsWorkspaceManifest(Deepest(ManifestAncestors(latest_file[1]))) )
    => /\ crate_path # None
       /\ Resolve(crate_path[1]) = Deepest(ManifestAncestors(latest_file[1]))

\* C6: when the root manifest is a workspace and two or more sub-crate
\* directories within the depth of the walk contain the file, the innermost
\* of them is returned, whatever the order of the walk.
C6_InnermostReturned ==
    ( /\ Resolved
      /\ RootIsWorkspace
      /\ Cardinality(FoundContaining(latest_file[1])) >= 2 )
    => crate_path = Some(Deepest(FoundContaining(latest_file[1])))

\* C7: when the workspace manifest at the repository root is the nearest
\* ancestor manifest of the file and no sub-crate directory the walk finds
\* contains the file, find_crate_directory succeeds and returns that root.
C7_WorkspaceRootFallback ==
    ( /\ Resolved
      /\ RootIsWorkspace
      /\ ManifestAncestors(latest_file[1]) # {}
      /\ Deepest(ManifestAncestors(latest_file[1])) = repo_root[1]
      /\ FoundContaining(latest_file[1]) = {} )
    => crate_path = Some(repo_root[1])

C7_Witness ==
    /\ Resolved
    /\ RootIsWorkspace
    /\ Deepest(ManifestAncestors(latest_file[1])) = repo_root[1]
    /\ latest_file = Some(B \o <<"lib.rs">>)
    /\ HasManifest(D)
    /\ HasManifest(C)
    /\ cwd = D
    /\ crate_path = Some(R)

\* C8: when the manifest of the resolved directory declares a well-formed
\* package name, get_crate_name returns exactly that name, whatever other
\* sections and name lines the manifest holds.
C8_NameRoundTrip ==
    ( /\ NameAsked
      /\ CrateManifest.st = "file"
      /\ PackageName(CrateManifest.lines) # None )
    => crate_name = Some(PackageName(CrateManifest.lines)[1])

\* C9: when the manifest of the resolved directory is readable and has no
\* well-formed name line, get_crate_name returns the final segment of the
\* project directory; the name fails only for a manifest that cannot be read.
C9_NameFallback ==
    /\ ( /\ NameAsked
         /\ CrateManifest.st = "file"
         /\ RegexCapture(CrateManifest.lines) = None )
       => crate_name = FileName(Resolve(crate_path[1]))
    /\ ( /\ NameAsked
         /\ crate_name = None )
       => CrateManifest.st = "unreadable" /\ result = "ManifestUnreadable"

\* C10: cargo is started only once the crate name is known, main ends only
\* after cargo has exited, and a run that started cargo ends Ok exactly when
\* cargo exited with success, and with DownstreamFailure when it did not.
C10_DownstreamStatus ==
    /\ cargo.st # "none" => crate_name # None /\ cargo.argv[4] = crate_name[1]
    /\ (pc = "done" /\ cargo.st # "none") => cargo.st \in {"exit_ok", "exit_fail"}
    /\ (pc = "done" /\ cargo.st # "none") => (result = "Ok" <=> cargo.st = "exit_ok")
    /\ (pc = "done" /\ cargo.st = "exit_fail") => result = "DownstreamFailure"

C10_Witness ==
    /\ pc = "done"
    /\ cargo.st = "exit_fail"
    /\ cargo.argv = <<"cargo", "check", "--package", "pkg">>
    /\ result = "DownstreamFailure"

\* C11: whenever find_recent_crate_path returns a non-empty path, that
\* directory holds a Cargo.toml and is an ancestor directory of the latest
\* changed file, also when the repository root has no Cargo.toml and the
\* current directory, another subdirectory of the repository, has one.
C11_ReturnedCrateOwnsFile ==
    ( /\ Resolved
      /\ crate_path # None
      /\ crate_path[1] # EmptyPath )
    => /\ HasManifest(Resolve(crate_path[1]))
       /\ Resolve(crate_path[1]) # latest_file[1]
       /\ StartsWith(latest_file[1], Resolve(crate_path[1]))

====
